---- MODULE Spec2Model ----
(***************************************************************************)
(* Model of the rust-basic MCP server template: the line-framed JSON-RPC   *)
(* transport loop (server.rs, MCPServer::run), the request decoder (the    *)
(* derived Deserialize of struct Request), the dispatcher and its handlers *)
(* (server.rs), the example tools provider (tools.rs) and main (main.rs).  *)
(*                                                                         *)
(* JSON values are records tagged by t: "null", "num", "str", "arr" and    *)
(* "obj".  An object is a record that carries the members the program      *)
(* looks at, each either a JSON value or Absent (the member is not in the  *)
(* text).  Rust's Option is None or Some(x); None is not JSON null.        *)
(***************************************************************************)
EXTENDS Integers, Sequences, FiniteSets, TLC

(***************************************************************************)
(* Bounds of the model.                                                    *)
(***************************************************************************)
\* lines a session may carry before end-of-input (Spec)
MaxLines == 2
\* numeric request ids are 1..MaxId
MaxId == 1
\* numeric tool arguments are 0..MaxNum
MaxNum == 1
\* numeric tool arguments of the tool calls of SpecCall are 0..MaxArg and
\* 2^53..2^53 + MaxArg
MaxArg == 3

(***************************************************************************)
(* JSON-RPC error codes, as written in server.rs.                          *)
(***************************************************************************)
ParseError == -32700
MethodNotFound == -32601
InvalidParams == -32602
InternalError == -32603

(***************************************************************************)
(* JSON values.                                                            *)
(***************************************************************************)
Absent == [t |-> "absent"]
None == [t |-> "none"]
Some(x) == [t |-> "some", v |-> x]
JNull == [t |-> "null"]
\* A JSON number (an unsigned integer): h * 2^53 + n, n being small. JNum(n)
\* is the number n, JBig(n) the number 2^53 + n = 9007199254740992 + n.
JNum(n) == [t |-> "num", h |-> 0, n |-> n]
JBig(n) == [t |-> "num", h |-> 1, n |-> n]
JStr(s) == [t |-> "str", s |-> s]
JArr(a) == [t |-> "arr", a |-> a]

\* serde_json: value[key] on a Value with a string key. Null for a value that
\* is no object and for a member the object does not have.
Index(v, key) ==
    IF v.t = "obj" /\ key \in DOMAIN v /\ v[key] # Absent THEN v[key] ELSE JNull

\* serde_json: value.get(key). None for a value that is no object and for a
\* member the object does not have; Some(Null) for a member that is null.
Get(v, key) ==
    IF v.t = "obj" /\ key \in DOMAIN v /\ v[key] # Absent THEN Some(v[key]) ELSE None

\* Value::as_str: Some for a JSON string only.
as_str(v) == IF v.t = "str" THEN Some(v.s) ELSE None

\* An f64 whose value is the integer h * 2^53 + n (n small): below 2^53 every
\* integer is an f64, from 2^53 on every second one, from 2^54 on every
\* fourth one.
F64(h, n) == [h |-> h, n |-> n]
Ulp(h) == IF h = 0 THEN 1 ELSE IF h = 1 THEN 2 ELSE 4

\* n rounded to a multiple of ulp, to the nearest one and on a tie to the one
\* with the even significand (IEEE 754 round-to-nearest-even).
RoundTiesEven(n, ulp) ==
    LET q == n \div ulp
        r == n % ulp
    IN  IF 2 * r < ulp THEN q * ulp
        ELSE IF 2 * r > ulp THEN (q + 1) * ulp
        ELSE IF q % 2 = 0 THEN q * ulp ELSE (q + 1) * ulp

\* u64 as f64: the nearest f64.
to_f64(v) == F64(v.h, RoundTiesEven(v.n, Ulp(v.h)))

\* f64 + f64: the exact sum, rounded to the nearest f64.
f64_add(x, y) == F64(x.h + y.h, RoundTiesEven(x.n + y.n, Ulp(x.h + y.h)))

\* Display of an integer-valued f64 ("{}"): its decimal numeral with no
\* fraction and no exponent ("2", "9007199254740992"), here the integer.
Display(x) == [h |-> x.h, n |-> x.n]

\* Value::as_f64: Some for a JSON number only, the integer converted to f64.
as_f64(v) == IF v.t = "num" THEN Some(to_f64(v)) ELSE None

\* format!: the format string and its arguments, in order.
Fmt(fmt, args) == [fmt |-> fmt, args |-> args]

Ok(v) == [ok |-> TRUE, value |-> v]
Err(e) == [ok |-> FALSE, error |-> e]

(***************************************************************************)
(* tools.rs                                                                *)
(***************************************************************************)
list_tools ==
    << [name |-> "hello",
        description |-> "Say hello to someone",
        inputSchema |->
            [type |-> "object",
             properties |->
                 [name |-> [type |-> "string", description |-> "Name to greet"]],
             required |-> <<"name">>]],
       [name |-> "add",
        description |-> "Add two numbers",
        inputSchema |->
            [type |-> "object",
             properties |->
                 [a |-> [type |-> "number", description |-> "First number"],
                  b |-> [type |-> "number", description |-> "Second number"]],
             required |-> <<"a", "b">>]] >>

\* json!({ "content": [{ "type": "text", "text": text }] })
TextContent(text) == [content |-> << [type |-> "text", text |-> text] >>]

\* call_hello with a shorter greeting.
call_hello_short(arguments) ==
    LET name == as_str(Index(arguments, "name")) IN
    IF name = None THEN Err(Fmt("Missing name parameter", <<>>))
    ELSE Ok(TextContent(Fmt("Hello, {}!", <<name.v>>)))

\* The "hello" arm of call_tool.
call_hello(arguments) ==
    LET name == as_str(Index(arguments, "name")) IN
    IF name = None THEN Err(Fmt("Missing name parameter", <<>>))
    ELSE Ok(TextContent(Fmt("Hello, {}! This is {{serverName}} speaking.", <<name.v>>)))

\* call_add whose sum leaves b out.
call_add_nosum(arguments) ==
    LET a == as_f64(Index(arguments, "a"))
        b == as_f64(Index(arguments, "b"))
    IN  IF a = None THEN Err(Fmt("Parameter 'a' must be a number", <<>>))
        ELSE IF b = None THEN Err(Fmt("Parameter 'b' must be a number", <<>>))
        ELSE Ok(TextContent(Fmt("{} + {} = {}", <<Display(a.v), Display(b.v), Display(a.v)>>)))

\* The "add" arm of call_tool: a is read and checked before b.
call_add(arguments) ==
    LET a == as_f64(Index(arguments, "a"))
        b == as_f64(Index(arguments, "b"))
    IN  IF a = None THEN Err(Fmt("Parameter 'a' must be a number", <<>>))
        ELSE IF b = None THEN Err(Fmt("Parameter 'b' must be a number", <<>>))
        ELSE Ok(TextContent(Fmt("{} + {} = {}",
                                <<Display(a.v), Display(b.v), Display(f64_add(a.v, b.v))>>)))

\* call_tool with no "add" arm.
call_tool_noadd(params) ==
    LET name == as_str(Index(params, "name"))
        arguments == Get(params, "arguments")
    IN  IF name = None THEN Err(Fmt("Missing tool name", <<>>))
        ELSE IF arguments = None THEN Err(Fmt("Missing tool arguments", <<>>))
        ELSE IF name.v = "hello" THEN call_hello(arguments.v)
        ELSE Err(Fmt("Unknown tool: {}", <<name.v>>))

\* call_tool that matches the name before it looks for the arguments.
call_tool_name_first(params) ==
    LET name == as_str(Index(params, "name"))
        arguments == Get(params, "arguments")
    IN  IF name = None THEN Err(Fmt("Missing tool name", <<>>))
        ELSE IF name.v \notin {"hello", "add"} THEN Err(Fmt("Unknown tool: {}", <<name.v>>))
        ELSE IF arguments = None THEN Err(Fmt("Missing tool arguments", <<>>))
        ELSE IF name.v = "hello" THEN call_hello(arguments.v)
        ELSE call_add(arguments.v)

\* call_tool(params): the name, then the arguments member, then the match on
\* the name.
call_tool(params) ==
    LET name == as_str(Index(params, "name"))
        arguments == Get(params, "arguments")
    IN  IF name = None THEN Err(Fmt("Missing tool name", <<>>))
        ELSE IF arguments = None THEN Err(Fmt("Missing tool arguments", <<>>))
        ELSE IF name.v = "hello" THEN call_hello(arguments.v)
        ELSE IF name.v = "add" THEN call_add(arguments.v)
        ELSE Err(Fmt("Unknown tool: {}", <<name.v>>))

(***************************************************************************)
(* resources.rs is declared by main.rs (mod resources) and called by       *)
(* server.rs, but is not among the sources: the Resources provider is      *)
(* modelled from the provider interface the specification gives (list of   *)
(* descriptors; read by name, with a descriptive failure for a missing or  *)
(* unknown name).                                                          *)
(***************************************************************************)
list_resources ==
    << [name |-> "example",
        description |-> "An example resource",
        inputSchema |-> [type |-> "object"]] >>

read_resource(params) ==
    LET name == as_str(Index(params, "name")) IN
    IF name = None THEN Err(Fmt("Missing resource name", <<>>))
    ELSE IF \E i \in DOMAIN list_resources : list_resources[i].name = name.v
         THEN Ok([contents |-> << [type |-> "text", text |-> Fmt("{}", <<name.v>>)] >>])
         ELSE Err(Fmt("Unknown resource: {}", <<name.v>>))

(***************************************************************************)
(* server.rs: the Request decoder.                                         *)
(*                                                                         *)
(* A line is its text class ("json": the text is one JSON value, v;        *)
(* "malformed": the text is no JSON value, v being the value it was cut or *)
(* garbled from).                                                          *)
(***************************************************************************)
JsonLine(v) == [text |-> "json", v |-> v]
MalformedLine(v) == [text |-> "malformed", v |-> v]

\* A request object as written on a line; each member is a value or Absent.
ReqObj(jsonrpc, method, id, params) ==
    [t |-> "obj", jsonrpc |-> jsonrpc, method |-> method, id |-> id, params |-> params]

Member(v, key) == IF key \in DOMAIN v THEN v[key] ELSE Absent

\* Deserialize of Option<Value>: a missing member and null are both None.
OptionOf(v) == IF v = Absent \/ v = JNull THEN None ELSE Some(v)

\* struct Request { jsonrpc: String, method: String, id: Option<Value>,
\* params: Option<Value> }
Request(jsonrpc, method, id, params) ==
    [jsonrpc |-> jsonrpc, method |-> method, id |-> id, params |-> params]

\* A Deserialize of Request that accepts no jsonrpc but "2.0".
DecodeFields_strict(jsonrpc, method, id, params) ==
    IF jsonrpc # JStr("2.0") \/ method.t # "str" THEN Err("parse")
    ELSE Ok(Request(jsonrpc.s, method.s, OptionOf(id), OptionOf(params)))

\* The derived Deserialize of Request, from the members in declaration order:
\* the two String members must be JSON strings.
DecodeFields(jsonrpc, method, id, params) ==
    IF jsonrpc.t # "str" \/ method.t # "str" THEN Err("parse")
    ELSE Ok(Request(jsonrpc.s, method.s, OptionOf(id), OptionOf(params)))

\* serde_json::from_str::<Request>(line). serde_json deserializes a struct
\* from a JSON object (by member name, unknown members ignored) and from a
\* JSON array (by position: exactly one element per field); any other value,
\* and text that is no JSON value, is an error.
Decode(line) ==
    IF line.text # "json" THEN Err("parse")
    ELSE IF line.v.t = "obj"
         THEN DecodeFields(Member(line.v, "jsonrpc"), Member(line.v, "method"),
                           Member(line.v, "id"), Member(line.v, "params"))
    ELSE IF line.v.t = "arr"
         THEN IF Len(line.v.a) # 4 THEN Err("parse")
              ELSE DecodeFields(line.v.a[1], line.v.a[2], line.v.a[3], line.v.a[4])
    ELSE Err("parse")

(***************************************************************************)
(* server.rs: Response, the handlers and the dispatcher.                   *)
(***************************************************************************)
\* MCPServer::new: the two fields of the server, fixed at construction.
self_name == "{{serverName}}"
self_version == "0.1.0"

ErrorResponse(code, message) == [code |-> code, message |-> message]

\* struct Response { jsonrpc, id, result, error }, jsonrpc being "2.0" at
\* every construction site.
Response(id, result, error) ==
    [jsonrpc |-> "2.0", id |-> id, result |-> result, error |-> error]

handle_initialize(id) ==
    Response(id,
             Some([protocolVersion |-> "1.0",
                   capabilities |-> [tools |-> [t |-> "obj"], resources |-> [t |-> "obj"]],
                   serverInfo |-> [name |-> self_name, version |-> self_version]]),
             None)

handle_list_tools(id) == Response(id, Some([tools |-> list_tools]), None)

\* handle_call_tool with a null result kept beside the error.
handle_call_tool_both(id, params) ==
    IF params # None
    THEN LET r == call_tool(params.v) IN
         IF r.ok THEN Response(id, Some(r.value), None)
         ELSE Response(id, Some(JNull), Some(ErrorResponse(InternalError, r.error)))
    ELSE Response(id, None, Some(ErrorResponse(InvalidParams, Fmt("Invalid params", <<>>))))

\* handle_call_tool with a fixed message in place of the failure's text.
handle_call_tool_generic(id, params) ==
    IF params # None
    THEN LET r == call_tool(params.v) IN
         IF r.ok THEN Response(id, Some(r.value), None)
         ELSE Response(id, None,
                       Some(ErrorResponse(InternalError, Fmt("Internal error", <<>>))))
    ELSE Response(id, None, Some(ErrorResponse(InvalidParams, Fmt("Invalid params", <<>>))))

handle_call_tool(id, params) ==
    IF params # None
    THEN LET r == call_tool(params.v) IN
         IF r.ok THEN Response(id, Some(r.value), None)
         ELSE Response(id, None, Some(ErrorResponse(InternalError, r.error)))
    ELSE Response(id, None, Some(ErrorResponse(InvalidParams, Fmt("Invalid params", <<>>))))

handle_list_resources(id) == Response(id, Some([resources |-> list_resources]), None)

\* handle_read_resource that takes params that are no object for missing params.
handle_read_resource_strict(id, params) ==
    IF params # None /\ params.v.t = "obj"
    THEN LET r == read_resource(params.v) IN
         IF r.ok THEN Response(id, Some(r.value), None)
         ELSE Response(id, None, Some(ErrorResponse(InternalError, r.error)))
    ELSE Response(id, None, Some(ErrorResponse(InvalidParams, Fmt("Invalid params", <<>>))))

handle_read_resource(id, params) ==
    IF params # None
    THEN LET r == read_resource(params.v) IN
         IF r.ok THEN Response(id, Some(r.value), None)
         ELSE Response(id, None, Some(ErrorResponse(InternalError, r.error)))
    ELSE Response(id, None, Some(ErrorResponse(InvalidParams, Fmt("Invalid params", <<>>))))

\* method_not_found that answers without the id, as the parse error does.
method_not_found_noid(request) ==
    Response(None, None,
             Some(ErrorResponse(MethodNotFound,
                                Fmt("Method not found: {}", <<request.method>>))))

\* The arm of handle_request for a method that matches none of the five.
method_not_found(request) ==
    Response(request.id, None,
             Some(ErrorResponse(MethodNotFound,
                                Fmt("Method not found: {}", <<request.method>>))))

\* handle_request that asks initialize for params, as it asks tools/call.
handle_request_initparams(request) ==
    CASE request.method = "initialize" ->
             IF request.params = None
             THEN Response(request.id, None,
                           Some(ErrorResponse(InvalidParams, Fmt("Invalid params", <<>>))))
             ELSE handle_initialize(request.id)
      [] request.method = "tools/list" -> handle_list_tools(request.id)
      [] request.method = "tools/call" -> handle_call_tool(request.id, request.params)
      [] request.method = "resources/list" -> handle_list_resources(request.id)
      [] request.method = "resources/read" ->
             handle_read_resource(request.id, request.params)
      [] OTHER -> Response(request.id, None,
                           Some(ErrorResponse(MethodNotFound,
                                              Fmt("Method not found: {}", <<request.method>>))))

\* handle_request that also takes the capitalised "Initialize".
handle_request_nocase(request) ==
    CASE request.method \in {"initialize", "Initialize"} -> handle_initialize(request.id)
      [] request.method = "tools/list" -> handle_list_tools(request.id)
      [] request.method = "tools/call" -> handle_call_tool(request.id, request.params)
      [] request.method = "resources/list" -> handle_list_resources(request.id)
      [] request.method = "resources/read" ->
             handle_read_resource(request.id, request.params)
      [] OTHER -> method_not_found(request)

\* match request.method.as_str(): exact string comparison.
handle_request(request) ==
    CASE request.method = "initialize" -> handle_initialize(request.id)
      [] request.method = "tools/list" -> handle_list_tools(request.id)
      [] request.method = "tools/call" -> handle_call_tool(request.id, request.params)
      [] request.method = "resources/list" -> handle_list_resources(request.id)
      [] request.method = "resources/read" ->
             handle_read_resource(request.id, request.params)
      [] OTHER -> method_not_found(request)

\* The Response built in run's Err arm.
parse_error_response ==
    Response(None, None, Some(ErrorResponse(ParseError, Fmt("Parse error", <<>>))))

\* serde_json::to_string(&response): id is always written (None as null);
\* result and error are skipped when None (skip_serializing_if), so the line
\* carries the member only when it is Some.
to_string(response) ==
    [jsonrpc |-> JStr(response.jsonrpc),
     id |-> IF response.id = None THEN JNull ELSE response.id.v,
     result |-> IF response.result = None THEN Absent ELSE response.result.v,
     error |-> IF response.error = None THEN Absent ELSE response.error.v]

(***************************************************************************)
(* The input lines of the model.                                           *)
(***************************************************************************)
Ids == {Absent, JNull, JStr("req-a")} \cup {JNum(i) : i \in 1..MaxId}

KnownMethods == {"initialize", "tools/list", "tools/call", "resources/list", "resources/read"}
OtherMethods == {"Initialize", "tools/call ", "", "ping"}
MethodVals == {Absent, JNum(1)} \cup {JStr(m) : m \in KnownMethods \cup OtherMethods}

JsonrpcVals == {Absent, JNum(2), JStr("2.0"), JStr("1.0")}

ArgVals == {Absent, JStr("2")} \cup {JNum(n) : n \in 0..MaxNum}
ArgObjs ==
    {[t |-> "obj", name |-> n, a |-> a, b |-> b] :
        n \in {Absent, JStr("Ada"), JNum(1)}, a \in ArgVals, b \in ArgVals}
ParamNames == {Absent, JNum(1)} \cup {JStr(n) : n \in {"hello", "add", "bogus", "example"}}
ParamObjs ==
    {[t |-> "obj", name |-> n, arguments |-> a] :
        n \in ParamNames, a \in ArgObjs \cup {Absent, JNull, JNum(0)}}
ParamVals == ParamObjs \cup {Absent, JNull, JNum(0), JStr("hello"), JArr(<<>>)}

AddParams ==
    [t |-> "obj", name |-> JStr("add"),
     arguments |-> [t |-> "obj", name |-> Absent, a |-> JNum(0), b |-> JNum(1)]]
BogusParams ==
    [t |-> "obj", name |-> JStr("bogus"),
     arguments |-> [t |-> "obj", name |-> Absent, a |-> Absent, b |-> Absent]]

\* Lines whose text is one JSON value that is neither object nor array, arrays
\* of every length up to five, and text that is no JSON value.
OtherLines ==
    {JsonLine(v) : v \in {JNull, JNum(1), JStr("initialize")}}
    \cup {JsonLine(JArr(a)) : a \in
            {<<>>, <<JStr("2.0"), JStr("initialize")>>,
             <<JStr("2.0"), JStr("initialize"), JNum(1)>>,
             <<JStr("2.0"), JStr("initialize"), JNum(1), JNull>>,
             <<JStr("2.0"), JStr("tools/call"), JStr("req-a"), AddParams>>,
             <<JStr("2.0"), JStr("ping"), JNull, JNull>>,
             <<JStr("2.0"), JStr("initialize"), JNum(1), JNull, JNull>>,
             <<JNum(1), JNum(2), JNum(3), JNum(4)>>}}
    \cup {MalformedLine(v) : v \in
            {JNull, ReqObj(JStr("2.0"), JStr("initialize"), JNum(1), Absent)}}

\* Every line of the model: each request object, and the lines that are no
\* request object.
AllLines ==
    {JsonLine(ReqObj(j, m, id, p)) :
        j \in JsonrpcVals, m \in MethodVals, id \in Ids, p \in ParamVals}
    \cup OtherLines

\* The lines of SpecCall: tools/call with every params, the numeric arguments
\* running over small numbers and over the numbers from 2^53 on.
CallArgVals ==
    {Absent, JNull, JStr("2")}
    \cup {JNum(n) : n \in 0..MaxArg} \cup {JBig(n) : n \in 0..MaxArg}
CallArgObjs ==
    {[t |-> "obj", name |-> n, a |-> a, b |-> b] :
        n \in {Absent, JStr("Ada"), JStr(""), JNum(1)}, a \in CallArgVals, b \in CallArgVals}
CallParamVals ==
    {[t |-> "obj", name |-> n, arguments |-> a] :
        n \in ParamNames, a \in CallArgObjs \cup {Absent, JNull, JNum(0)}}
    \cup {JNum(0), JStr("hello"), JArr(<<>>)}
CallLines ==
    {JsonLine(ReqObj(JStr("2.0"), JStr("tools/call"), JNum(1), p)) : p \in CallParamVals}
    \cup {MalformedLine(JNull)}

\* The lines of a session of several lines.
LoopLines ==
    {JsonLine(ReqObj(JStr("2.0"), JStr(m), id, p)) :
        m \in {"initialize", "tools/call", "resources/read", "ping"},
        id \in {Absent, JStr("req-a")} \cup {JNum(i) : i \in 1..MaxId},
        p \in {Absent, AddParams, BogusParams}}
    \cup {MalformedLine(JNull),
          JsonLine(ReqObj(JStr("2.0"), Absent, JNum(1), Absent))}

(***************************************************************************)
(* The process: main (main.rs) and MCPServer::run (server.rs).             *)
(***************************************************************************)
VARIABLES
    pc,           \* where the process is: "main", "read", "decode", "write",
                  \* "flush", "returned" (run has returned to main), "exited"
    input,        \* the lines the loop has taken from stdin, in order
    line,         \* the line in hand (None outside an iteration)
    response_str, \* the serialized response of the line in hand (or None)
    stdout,       \* what has been written to standard output, in order
    flushed,      \* how many entries of stdout were written when it was last flushed
    run_result,   \* None while run has not returned, then Ok or Err(the I/O failure)
    exit,         \* None while main has not returned, then what main returned
    calls         \* history: the calls of handle_request and of the providers,
                  \* each with the number of the line it was made for

vars == <<pc, input, line, response_str, stdout, flushed, run_result, exit, calls>>

\* An event handed to tracing. main.rs installs tracing_subscriber::fmt()
\* without a writer, whose default writer is standard output.
LogEntry(level, event) == [kind |-> "log", level |-> level, event |-> event]
ResponseEntry(str) == [kind |-> "response", body |-> str]

\* The events call_tool logs: info!("Calling tool: ...") once name and
\* arguments are there.
call_tool_events(params) ==
    IF as_str(Index(params, "name")) # None /\ Get(params, "arguments") # None
    THEN << LogEntry("INFO", Fmt("Calling tool: {} with args: {:?}",
                                 <<Index(params, "name"), Get(params, "arguments").v>>)) >>
    ELSE <<>>

handle_request_events(request) ==
    IF request.method = "tools/call" /\ request.params # None
    THEN call_tool_events(request.params.v)
    ELSE <<>>

\* provider_calls of a handler that calls the tool again when it failed.
provider_calls_retry(request) ==
    IF request.method = "tools/call" /\ request.params # None
    THEN IF call_tool(request.params.v).ok THEN <<"tools::call_tool">>
         ELSE <<"tools::call_tool", "tools::call_tool">>
    ELSE IF request.method = "resources/read" /\ request.params # None
    THEN <<"resources::read_resource">>
    ELSE <<>>

\* The provider functions handle_request reaches: tools::call_tool from the
\* Some arm of handle_call_tool, resources::read_resource from the Some arm of
\* handle_read_resource.
provider_calls(request) ==
    IF request.method = "tools/call" /\ request.params # None
    THEN <<"tools::call_tool">>
    ELSE IF request.method = "resources/read" /\ request.params # None
    THEN <<"resources::read_resource">>
    ELSE <<>>

Call(k, fn) == [k |-> k, fn |-> fn]

Init ==
    /\ pc = "main"
    /\ input = <<>>
    /\ line = None
    /\ response_str = None
    /\ stdout = <<>>
    /\ flushed = 0
    /\ run_result = None
    /\ exit = None
    /\ calls = <<>>

\* main up to server.run(), and run up to the loop.
Main ==
    /\ pc = "main"
    /\ stdout' = stdout \o << LogEntry("INFO", Fmt("Starting {{serverName}} MCP server...", <<>>)),
                              LogEntry("INFO", Fmt("MCP server {} v{} ready",
                                                   <<self_name, self_version>>)) >>
    /\ flushed' = Len(stdout')
    /\ pc' = "read"
    /\ UNCHANGED <<input, line, response_str, run_result, exit, calls>>

\* The iterator yields the next line: let line = line?; debug!("Received").
ReadLine(lines, max) ==
    /\ pc = "read"
    /\ Len(input) < max
    /\ \E l \in lines :
          /\ line' = Some(l)
          /\ input' = Append(input, l)
          /\ stdout' = Append(stdout, LogEntry("DEBUG", Fmt("Received: {}", <<l>>)))
    /\ flushed' = Len(stdout')
    /\ pc' = "decode"
    /\ UNCHANGED <<response_str, run_result, exit, calls>>

\* The iterator ends: the loop is left and run returns Ok(()).
ReadEof ==
    /\ pc = "read"
    /\ run_result' = Ok("()")
    /\ pc' = "returned"
    /\ UNCHANGED <<input, line, response_str, stdout, flushed, exit, calls>>

\* The iterator yields an error: line? returns it from run.
ReadFail ==
    /\ pc = "read"
    /\ run_result' = Err("read")
    /\ pc' = "returned"
    /\ UNCHANGED <<input, line, response_str, stdout, flushed, exit, calls>>

\* HandleOk of a server that keeps a session: until a line with method
\* initialize has been read, every request is refused.
HandleOk_session ==
    /\ pc = "decode"
    /\ Decode(line.v).ok
    /\ LET request == Decode(line.v).value
           initialized == \E k \in DOMAIN input :
                              Decode(input[k]).ok /\ Decode(input[k]).value.method = "initialize"
       IN
         /\ response_str' =
               Some(to_string(IF initialized THEN handle_request(request)
                              ELSE Response(request.id, None,
                                            Some(ErrorResponse(InternalError,
                                                               Fmt("Not initialized", <<>>))))))
         /\ stdout' = stdout \o handle_request_events(request)
         /\ calls' = calls \o <<Call(Len(input), "handle_request")>>
    /\ flushed' = Len(stdout')
    /\ pc' = "write"
    /\ UNCHANGED <<input, line, run_result, exit>>

\* The Ok arm of the match, up to to_string.
HandleOk ==
    /\ pc = "decode"
    /\ Decode(line.v).ok
    /\ LET request == Decode(line.v).value IN
         /\ response_str' = Some(to_string(handle_request(request)))
         /\ stdout' = stdout \o handle_request_events(request)
         /\ calls' = calls \o <<Call(Len(input), "handle_request")>>
                      \o [i \in DOMAIN provider_calls(request) |->
                             Call(Len(input), provider_calls(request)[i])]
    /\ flushed' = Len(stdout')
    /\ pc' = "write"
    /\ UNCHANGED <<input, line, run_result, exit>>

\* HandleErr that returns the decode error from run (from_str(&line)?).
HandleErr_abort ==
    /\ pc = "decode"
    /\ ~Decode(line.v).ok
    /\ run_result' = Err("parse")
    /\ pc' = "returned"
    /\ UNCHANGED <<input, line, response_str, stdout, flushed, exit, calls>>

\* The Err arm of the match, up to to_string.
HandleErr ==
    /\ pc = "decode"
    /\ ~Decode(line.v).ok
    /\ response_str' = Some(to_string(parse_error_response))
    /\ stdout' = Append(stdout, LogEntry("WARN", Fmt("Failed to parse request: {}", <<"e">>)))
    /\ flushed' = Len(stdout')
    /\ pc' = "write"
    /\ UNCHANGED <<input, line, run_result, exit, calls>>

\* Write that puts the response before what was written so far.
Write_front ==
    /\ pc = "write"
    /\ stdout' = <<ResponseEntry(response_str.v)>> \o stdout
    /\ pc' = "flush"
    /\ UNCHANGED <<input, line, response_str, flushed, run_result, exit, calls>>

\* writeln!(stdout, "{}", response_str)
Write ==
    /\ pc = "write"
    /\ stdout' = Append(stdout, ResponseEntry(response_str.v))
    /\ pc' = "flush"
    /\ UNCHANGED <<input, line, response_str, flushed, run_result, exit, calls>>

WriteFail ==
    /\ pc = "write"
    /\ run_result' = Err("write")
    /\ pc' = "returned"
    /\ UNCHANGED <<input, line, response_str, stdout, flushed, exit, calls>>

\* Flush without stdout.flush(): the iteration ends with the response unflushed.
Flush_skipped ==
    /\ pc = "flush"
    /\ line' = None
    /\ response_str' = None
    /\ pc' = "read"
    /\ UNCHANGED <<input, stdout, flushed, run_result, exit, calls>>

\* stdout.flush(), then debug!("Sent") in the Ok arm; the iteration ends.
Flush ==
    /\ pc = "flush"
    /\ stdout' = IF Decode(line.v).ok
                 THEN Append(stdout, LogEntry("DEBUG", Fmt("Sent: {}", <<response_str.v>>)))
                 ELSE stdout
    /\ flushed' = Len(stdout')
    /\ line' = None
    /\ response_str' = None
    /\ pc' = "read"
    /\ UNCHANGED <<input, run_result, exit, calls>>

FlushFail ==
    /\ pc = "flush"
    /\ run_result' = Err("flush")
    /\ pc' = "returned"
    /\ UNCHANGED <<input, line, response_str, stdout, flushed, exit, calls>>

\* MainReturn that logs the error and returns Ok(()).
MainReturn_swallow ==
    /\ pc = "returned"
    /\ stdout' = Append(stdout,
                        IF run_result.ok
                        THEN LogEntry("INFO",
                                 Fmt("{{serverName}} MCP server stopped gracefully", <<>>))
                        ELSE LogEntry("ERROR",
                                 Fmt("{{serverName}} MCP server error: {}", <<run_result.error>>)))
    /\ exit' = Ok("()")
    /\ flushed' = flushed
    /\ pc' = "exited"
    /\ UNCHANGED <<input, line, response_str, run_result, calls>>

\* main's match on what run returned.
MainReturn ==
    /\ pc = "returned"
    /\ IF run_result.ok
       THEN /\ stdout' = Append(stdout, LogEntry("INFO",
                                Fmt("{{serverName}} MCP server stopped gracefully", <<>>)))
            /\ exit' = Ok("()")
       ELSE /\ stdout' = Append(stdout, LogEntry("ERROR",
                                Fmt("{{serverName}} MCP server error: {}", <<run_result.error>>)))
            /\ exit' = Err(run_result.error)
    /\ flushed' = flushed
    /\ pc' = "exited"
    /\ UNCHANGED <<input, line, response_str, run_result, calls>>

\* A session of up to MaxLines lines.
Next ==
    \/ Main
    \/ ReadLine(LoopLines, MaxLines)
    \/ ReadEof
    \/ ReadFail
    \/ HandleOk
    \/ HandleErr
    \/ Write
    \/ WriteFail
    \/ Flush
    \/ FlushFail
    \/ MainReturn

Spec == Init /\ [][Next]_vars

\* A session of one line, the line being any line of the model.
NextOne ==
    \/ Main
    \/ ReadLine(AllLines, 1)
    \/ ReadEof
    \/ ReadFail
    \/ HandleOk
    \/ HandleErr
    \/ Write
    \/ WriteFail
    \/ Flush
    \/ FlushFail
    \/ MainReturn

SpecOne == Init /\ [][NextOne]_vars

\* A session of one line, the line being a tools/call.
NextCall ==
    \/ Main
    \/ ReadLine(CallLines, 1)
    \/ ReadEof
    \/ ReadFail
    \/ HandleOk
    \/ HandleErr
    \/ Write
    \/ WriteFail
    \/ Flush
    \/ FlushFail
    \/ MainReturn

SpecCall == Init /\ [][NextCall]_vars

(***************************************************************************)
(* What the properties below read off a state.                             *)
(***************************************************************************)
IsResponse(e) == e.kind = "response"

\* The response lines on standard output, in order.
Responses == SelectSeq(stdout, IsResponse)

\* The response lines that were written when standard output was last flushed.
FlushedResponses == SelectSeq(SubSeq(stdout, 1, flushed), IsResponse)

\* A response has been built for the line in hand.
Answering == pc \in {"write", "flush"}

\* The member of the request a line's text carries: by name in an object, by
\* position in an array.
LineMember(l, key, pos) ==
    IF l.v.t = "obj" THEN Member(l.v, key)
    ELSE IF l.v.t = "arr" /\ pos <= Len(l.v.a) THEN l.v.a[pos]
    ELSE Absent

\* The id a line's text carries, null when it carries none.
LineId(l) ==
    LET id == LineMember(l, "id", 3) IN IF id = Absent THEN JNull ELSE id

\* The id the answer to a line is to carry.
EchoedId(l) == IF Decode(l).ok THEN LineId(l) ELSE JNull

HasError(body, code) == body.error # Absent /\ body.error.code = code

CallsFor(k, fn) == {i \in DOMAIN calls : calls[i].k = k /\ calls[i].fn = fn}

(***************************************************************************)
(* C1: at every point of a session the response lines written are the      *)
(* answers to the lines read so far, in the order read, the k-th carrying   *)
(* the id of the k-th line (null when that line does not decode); at most   *)
(* the line in hand is unanswered, and once run has returned Ok there are   *)
(* exactly as many response lines as lines read.                           *)
(***************************************************************************)
C1_ResponsesInOrder ==
    /\ Len(Responses) \in {Len(input) - 1, Len(input)}
    /\ \A k \in 1..Len(Responses) : Responses[k].body.id = EchoedId(input[k])
    /\ (run_result # None /\ run_result.ok) => Len(Responses) = Len(input)

C1_Witness ==
    /\ pc = "exited"
    /\ run_result.ok
    /\ Len(input) >= 2
    /\ Len(Responses) = Len(input)
    /\ Responses[1].body.id = JNum(1)
    /\ Responses[2].body.id = JStr("req-a")

\* A line that is no JSON value, or a JSON value with no method member.
NoMethodField(l) ==
    l.text # "json" \/ l.v.t # "obj" \/ Member(l.v, "method") = Absent

(***************************************************************************)
(* C2: a line that is no JSON value, or is a JSON value with no method      *)
(* member, is answered with id null, error code -32700 and no result, and   *)
(* is never passed to handle_request.                                      *)
(***************************************************************************)
C2_NoMethodIsParseError ==
    (Answering /\ NoMethodField(line.v)) =>
        /\ response_str.v.id = JNull
        /\ response_str.v.result = Absent
        /\ HasError(response_str.v, ParseError)
        /\ CallsFor(Len(input), "handle_request") = {}

(***************************************************************************)
(* C3: a decoded request whose method is not exactly one of the five method *)
(* names is answered with error code -32601, a message that contains the    *)
(* method string, and its id; a request whose method is one of the five is  *)
(* never answered with -32601.                                             *)
(***************************************************************************)
C3_ExactMethodMatch ==
    (Answering /\ Decode(line.v).ok) =>
        LET m == LineMember(line.v, "method", 2).s
            body == response_str.v
        IN  /\ m \notin KnownMethods =>
                  /\ HasError(body, MethodNotFound)
                  /\ body.result = Absent
                  /\ \E i \in DOMAIN body.error.message.args :
                        body.error.message.args[i] = m
                  /\ body.id = LineId(line.v)
            /\ m \in KnownMethods => ~HasError(body, MethodNotFound)

C3_Witness ==
    /\ Answering
    /\ Decode(line.v).ok
    /\ LineMember(line.v, "method", 2) = JStr("Initialize")
    /\ LineId(line.v) = JNum(1)
    /\ HasError(response_str.v, MethodNotFound)

(***************************************************************************)
(* C4: every response, the one being written and each one on standard       *)
(* output, has exactly one of result and error.                            *)
(***************************************************************************)
ResultXorError(body) == (body.result = Absent) # (body.error = Absent)

C4_ResultXorError ==
    /\ response_str # None => ResultXorError(response_str.v)
    /\ \A k \in DOMAIN Responses : ResultXorError(Responses[k].body)

C4_Witness ==
    /\ Len(Responses) = 1
    /\ HasError(Responses[1].body, InternalError)
    /\ Responses[1].body.result = Absent

IoFailures == {Err("read"), Err("write"), Err("flush")}

(***************************************************************************)
(* C6: the loop is left only where a line is awaited (end of input or a     *)
(* failed read) or by a failed write or flush; a line in hand, decodable or *)
(* not, always gets a response to write, and after each flush that did not  *)
(* fail the loop is back at reading the next line.                         *)
(***************************************************************************)
C6_LoopSurvivesRequestFailure ==
    [][ /\ (run_result = None /\ run_result' # None) =>
              \/ pc = "read" /\ run_result' \in {Ok("()"), Err("read")}
              \/ pc = "write" /\ run_result' = Err("write")
              \/ pc = "flush" /\ run_result' = Err("flush")
        /\ pc = "decode" =>
              /\ pc' = "write"
              /\ response_str' # None
              /\ run_result' = None
              /\ ~Decode(line.v).ok => HasError(response_str'.v, ParseError)
        /\ (pc = "flush" /\ run_result' = None) =>
              /\ pc' = "read"
              /\ Len(Responses') = Len(input) ]_vars

C6_Witness ==
    /\ pc = "decode"
    /\ Len(input) = 2
    /\ Len(Responses) = 1
    /\ HasError(Responses[1].body, ParseError)
    /\ run_result = None

(***************************************************************************)
(* C7: tools/call and resources/read are answered with error code -32602    *)
(* exactly when the request carries no params (absent or null), and then no *)
(* provider is called for the line.                                        *)
(***************************************************************************)
C7_InvalidParamsIffNoParams ==
    (/\ Answering
     /\ Decode(line.v).ok
     /\ LineMember(line.v, "method", 2) \in {JStr("tools/call"), JStr("resources/read")}) =>
        LET noParams == LineMember(line.v, "params", 4) \in {Absent, JNull} IN
        /\ HasError(response_str.v, InvalidParams) <=> noParams
        /\ noParams =>
              /\ CallsFor(Len(input), "tools::call_tool") = {}
              /\ CallsFor(Len(input), "resources::read_resource") = {}

C7_Witness ==
    /\ Answering
    /\ Decode(line.v).ok
    /\ LineMember(line.v, "method", 2) = JStr("resources/read")
    /\ LineMember(line.v, "params", 4) = JArr(<<>>)
    /\ HasError(response_str.v, InternalError)

\* The params with which a tool call cannot succeed, read off the params.
ToolCallFails(p) ==
    LET n == Index(p, "name")
        args == Index(p, "arguments")
    IN  \/ n.t # "str"
        \/ p.arguments = Absent
        \/ n.s \notin {"hello", "add"}
        \/ n.s = "hello" /\ Index(args, "name").t # "str"
        \/ n.s = "add" /\ (Index(args, "a").t # "num" \/ Index(args, "b").t # "num")

(***************************************************************************)
(* C8: for tools/call with params, every failure of call_tool (no string    *)
(* name, no arguments member, a name that is neither hello nor add, a       *)
(* missing or wrongly typed argument of hello or add) is answered with      *)
(* error code -32603 and the failure's text as the message; the name        *)
(* "bogus" with an arguments object gets "Unknown tool: bogus".            *)
(***************************************************************************)
C8_ToolFailureIsInternalError ==
    (/\ Answering
     /\ Decode(line.v).ok
     /\ LineMember(line.v, "method", 2) = JStr("tools/call")
     /\ LineMember(line.v, "params", 4) \notin {Absent, JNull}) =>
        LET params == LineMember(line.v, "params", 4)
            body == response_str.v
        IN  /\ (params.t # "obj" \/ ToolCallFails(params)) =>
                  /\ ~call_tool(params).ok
                  /\ HasError(body, InternalError)
                  /\ body.result = Absent
                  /\ body.error.message = call_tool(params).error
            /\ (params.t = "obj" /\ ~ToolCallFails(params)) => body.error = Absent
            /\ (Index(params, "name") = JStr("bogus")
                    /\ Index(params, "arguments").t = "obj") =>
                  /\ HasError(body, InternalError)
                  /\ body.error.message = Fmt("Unknown tool: {}", <<"bogus">>)

C8_Witness ==
    /\ pc = "flush"
    /\ LineMember(line.v, "method", 2) = JStr("tools/call")
    /\ LineMember(line.v, "params", 4) = BogusParams
    /\ HasError(Responses[1].body, InternalError)
    /\ Responses[1].body.error.message = Fmt("Unknown tool: {}", <<"bogus">>)

(***************************************************************************)
(* C9: lines are handled one at a time: at most the line in hand has no     *)
(* response written, and whenever the loop is about to take a line, and     *)
(* whenever it holds a line it has not answered yet, the responses to all   *)
(* earlier lines are written and flushed.                                  *)
(***************************************************************************)
C9_OneAtATime ==
    /\ Len(Responses) \in {Len(input) - 1, Len(input)}
    /\ pc = "read" => Len(FlushedResponses) = Len(input)
    /\ pc = "decode" => Len(FlushedResponses) = Len(input) - 1
    /\ pc = "write" =>
          Len(Responses) = Len(input) - 1 /\ Len(FlushedResponses) = Len(input) - 1
    /\ pc = "flush" =>
          Len(Responses) = Len(input) /\ Len(FlushedResponses) = Len(input) - 1

C9_Witness ==
    /\ pc = "decode"
    /\ Len(input) = 2
    /\ Len(FlushedResponses) = 1
    /\ Len(Responses) = 1

\* The exit status of the process: main returns Result<()>.
ExitStatus == IF exit.ok THEN 0 ELSE 1

(***************************************************************************)
(* C10: run returns Ok only with every line read answered and flushed and   *)
(* no line in hand; a failed read, write or flush ends run with that error, *)
(* after which no line is read, no request is handled and no response is    *)
(* written; main returns what run returned, having logged the error at      *)
(* ERROR level when it is one.                                             *)
(***************************************************************************)
C10_Termination ==
    /\ [](run_result # None =>
            /\ pc \in {"returned", "exited"}
            /\ run_result \in {Ok("()")} \cup IoFailures
            /\ run_result.ok =>
                  /\ Len(Responses) = Len(input)
                  /\ Len(FlushedResponses) = Len(input)
                  /\ line = None)
    /\ [](pc = "exited" =>
            /\ exit = run_result
            /\ ExitStatus = 0 <=> run_result.ok
            /\ ~run_result.ok =>
                  stdout[Len(stdout)] =
                      LogEntry("ERROR", Fmt("{{serverName}} MCP server error: {}",
                                            <<run_result.error>>)))
    /\ [][run_result # None =>
            /\ input' = input
            /\ calls' = calls
            /\ Responses' = Responses
            /\ run_result' = run_result]_vars

C10_Witness ==
    /\ pc = "exited"
    /\ exit = Err("write")
    /\ Len(input) = 2
    /\ Len(Responses) = 1

(***************************************************************************)
(* C11: everything on standard output is a response: no log line of main,   *)
(* of the loop or of a tool is written there.                              *)
(***************************************************************************)
C11_StdoutOnlyResponses ==
    \A i \in DOMAIN stdout : stdout[i].kind = "response"

\* The answer to a line as a function of the line alone.
AnswerOf(l) ==
    IF Decode(l).ok THEN to_string(handle_request(Decode(l).value))
    ELSE to_string(parse_error_response)

(***************************************************************************)
(* C12: the response to a line depends on that line alone: whatever lines   *)
(* were handled before it, the k-th response is the answer to the k-th      *)
(* line, and two equal lines of a session get equal responses.             *)
(***************************************************************************)
C12_NoStateAcrossRequests ==
    /\ \A k \in DOMAIN Responses : Responses[k].body = AnswerOf(input[k])
    /\ \A j, k \in DOMAIN Responses :
          input[j] = input[k] => Responses[j].body = Responses[k].body
    /\ response_str # None => response_str.v = AnswerOf(line.v)

C12_Witness ==
    /\ Len(Responses) = 2
    /\ input[1] = JsonLine(ReqObj(JStr("2.0"), JStr("ping"), JNum(1), Absent))
    /\ input[2] = JsonLine(ReqObj(JStr("2.0"), JStr("tools/call"), JNum(1), AddParams))
    /\ Responses[2].body.error = Absent

\* The payload of initialize, as the interface gives it.
InitializePayload ==
    [protocolVersion |-> "1.0",
     capabilities |-> [tools |-> [t |-> "obj"], resources |-> [t |-> "obj"]],
     serverInfo |-> [name |-> "{{serverName}}", version |-> "0.1.0"]]

(***************************************************************************)
(* C13: a decoded request with method initialize is answered with the fixed *)
(* payload as result and no error, whatever its params (absent, null or any *)
(* value).                                                                 *)
(***************************************************************************)
C13_InitializeIgnoresParams ==
    (/\ Answering
     /\ Decode(line.v).ok
     /\ LineMember(line.v, "method", 2) = JStr("initialize")) =>
        /\ response_str.v.result = InitializePayload
        /\ response_str.v.error = Absent
        /\ response_str.v.id = LineId(line.v)

C13_Witness ==
    /\ Answering
    /\ Decode(line.v).ok
    /\ LineMember(line.v, "method", 2) = JStr("initialize")
    /\ LineMember(line.v, "params", 4) = Absent
    /\ response_str.v.result = InitializePayload

\* The params of the line in hand, and the arguments of a tools/call to the
\* tool named tool.
LineParams == LineMember(line.v, "params", 4)

CallOf(tool) ==
    /\ Answering
    /\ Decode(line.v).ok
    /\ LineMember(line.v, "method", 2) = JStr("tools/call")
    /\ LineParams.t = "obj"
    /\ LineParams.name = JStr(tool)
    /\ LineParams.arguments.t = "obj"

\* The decimal numeral of the integer h * 2^53 + n.
Numeral(h, n) == [h |-> h, n |-> n]

\* The integer h * 2^53 + n is an f64.
Representable(h, n) == n % Ulp(h) = 0

\* The result of a tool: one content item of type text, with this text.
IsText(body, fmt, args) ==
    /\ body.error = Absent
    /\ body.result # Absent
    /\ DOMAIN body.result = {"content"}
    /\ Len(body.result.content) = 1
    /\ body.result.content[1].type = "text"
    /\ body.result.content[1].text.fmt = fmt
    /\ body.result.content[1].text.args = args

(***************************************************************************)
(* C14, as claimed: add with numbers a and b answers with the text          *)
(* "{a} + {b} = {a+b}", a+b being the arithmetic sum.                       *)
(***************************************************************************)
C14_AddTextIsArithmeticSum ==
    LET a == LineParams.arguments.a
        b == LineParams.arguments.b
    IN  (CallOf("add") /\ a.t = "num" /\ b.t = "num") =>
            IsText(response_str.v, "{} + {} = {}",
                   <<Numeral(a.h, a.n), Numeral(b.h, b.n), Numeral(a.h + b.h, a.n + b.n)>>)

(***************************************************************************)
(* C14, amended: add with numbers a and b answers with one text item        *)
(* "{x} + {y} = {s}", x and y being a and b as 64-bit floats and s their    *)
(* floating-point sum; when a, b and a+b are exactly 64-bit floats (as all  *)
(* integers up to 2^53 are) the text is "{a} + {b} = {a+b}" with the        *)
(* arithmetic sum, and for a = 2, b = 3 it is "2 + 3 = 5".                  *)
(***************************************************************************)
C14_AddTextIsFloatSum ==
    LET a == LineParams.arguments.a
        b == LineParams.arguments.b
    IN  (CallOf("add") /\ a.t = "num" /\ b.t = "num") =>
            /\ IsText(response_str.v, "{} + {} = {}",
                      <<Display(to_f64(a)), Display(to_f64(b)),
                        Display(f64_add(to_f64(a), to_f64(b)))>>)
            /\ (/\ Representable(a.h, a.n)
                /\ Representable(b.h, b.n)
                /\ Representable(a.h + b.h, a.n + b.n)) =>
                  response_str.v.result.content[1].text.args =
                      <<Numeral(a.h, a.n), Numeral(b.h, b.n),
                        Numeral(a.h + b.h, a.n + b.n)>>
            /\ (a = JNum(2) /\ b = JNum(3)) =>
                  response_str.v.result.content[1].text.args =
                      <<Numeral(0, 2), Numeral(0, 3), Numeral(0, 5)>>

C14_Witness ==
    /\ pc = "flush"
    /\ CallOf("add")
    /\ LineParams.arguments.a = JNum(2)
    /\ LineParams.arguments.b = JNum(3)
    /\ IsText(Responses[1].body, "{} + {} = {}",
              <<Numeral(0, 2), Numeral(0, 3), Numeral(0, 5)>>)

(***************************************************************************)
(* C15: hello with a string arguments.name answers with exactly one content *)
(* item, of type text, whose text is "Hello, {name}! This is {server}       *)
(* speaking." with the name as given ({server} being the template's server  *)
(* name).                                                                  *)
(***************************************************************************)
C15_HelloText ==
    (CallOf("hello") /\ LineParams.arguments.name.t = "str") =>
        IsText(response_str.v, "Hello, {}! This is {{serverName}} speaking.",
               <<LineParams.arguments.name.s>>)

C15_Witness ==
    /\ pc = "flush"
    /\ CallOf("hello")
    /\ LineParams.arguments.name = JStr("Ada")
    /\ IsText(Responses[1].body, "Hello, {}! This is {{serverName}} speaking.", <<"Ada">>)

\* The provider calls made for line k.
ProviderCallsFor(k) ==
    {i \in DOMAIN calls : calls[i].k = k /\ calls[i].fn # "handle_request"}

\* Line k has been handled: its response is built.
Handled(k) == k < Len(input) \/ pc # "decode"

(***************************************************************************)
(* C16: for each line read, handle_request is called at most once and a     *)
(* provider at most once; a provider is called only for a decoded           *)
(* tools/call (the tools provider) or resources/read (the resources         *)
(* provider) that carries params, and then exactly once, whether the call   *)
(* fails or not; it is never called for a line that does not decode, for    *)
(* another method or for absent params.                                    *)
(***************************************************************************)
C16_AttemptedOnce ==
    \A k \in DOMAIN input :
        LET l == input[k]
            method == LineMember(l, "method", 2)
            hasParams == LineMember(l, "params", 4) \notin {Absent, JNull}
            tool == Decode(l).ok /\ method = JStr("tools/call") /\ hasParams
            resource == Decode(l).ok /\ method = JStr("resources/read") /\ hasParams
        IN  /\ Cardinality(CallsFor(k, "handle_request")) <= 1
            /\ Cardinality(ProviderCallsFor(k)) <= 1
            /\ CallsFor(k, "tools::call_tool") # {} => tool
            /\ CallsFor(k, "resources::read_resource") # {} => resource
            /\ ~Decode(l).ok => CallsFor(k, "handle_request") = {}
            /\ (Handled(k) /\ tool) => Cardinality(CallsFor(k, "tools::call_tool")) = 1
            /\ (Handled(k) /\ resource) =>
                  Cardinality(CallsFor(k, "resources::read_resource")) = 1

C16_Witness ==
    /\ pc = "exited"
    /\ Len(input) = 1
    /\ LineMember(input[1], "method", 2) = JStr("tools/call")
    /\ LineMember(input[1], "params", 4) = BogusParams
    /\ Len(Responses) = 1
    /\ HasError(Responses[1].body, InternalError)
    /\ Cardinality(CallsFor(1, "tools::call_tool")) = 1

\* The names list_tools lists.
ListedTools == {list_tools[i].name : i \in DOMAIN list_tools}

(***************************************************************************)
(* C17: list_tools lists no name twice, every tools/list is answered with   *)
(* the descriptors of list_tools, and a tools/call whose params carry a     *)
(* string name and an arguments member fails with "Unknown tool: <name>"    *)
(* exactly when the name is not one list_tools lists.                      *)
(***************************************************************************)
C17_RegistryConsistent ==
    /\ \A i, j \in DOMAIN list_tools :
          list_tools[i].name = list_tools[j].name => i = j
    /\ (/\ Answering
        /\ Decode(line.v).ok
        /\ LineMember(line.v, "method", 2) = JStr("tools/list")) =>
          /\ response_str.v.error = Absent
          /\ response_str.v.result = [tools |-> list_tools]
    /\ (/\ Answering
        /\ Decode(line.v).ok
        /\ LineMember(line.v, "method", 2) = JStr("tools/call")
        /\ LineParams.t = "obj"
        /\ LineParams.name.t = "str"
        /\ LineParams.arguments # Absent) =>
          ((/\ HasError(response_str.v, InternalError)
            /\ response_str.v.error.message =
                   Fmt("Unknown tool: {}", <<LineParams.name.s>>))
           <=> LineParams.name.s \notin ListedTools)

C17_Witness ==
    /\ Answering
    /\ Decode(line.v).ok
    /\ LineMember(line.v, "method", 2) = JStr("tools/call")
    /\ LineParams.t = "obj"
    /\ LineParams.name = JStr("add")
    /\ LineParams.arguments = JNull
    /\ HasError(response_str.v, InternalError)
    /\ response_str.v.error.message = Fmt("Parameter 'a' must be a number", <<>>)

\* The line in hand is a decoded tools/call that carries params.
ToolCall ==
    /\ Answering
    /\ Decode(line.v).ok
    /\ LineMember(line.v, "method", 2) = JStr("tools/call")
    /\ LineParams \notin {Absent, JNull}

\* The line in hand is answered with the tool failure of this message.
ToolErrorIs(fmt, args) ==
    /\ HasError(response_str.v, InternalError)
    /\ response_str.v.result = Absent
    /\ response_str.v.error.message = Fmt(fmt, args)

\* What call_tool looks at, in the params of the line in hand.
NameIsString == LineParams.t = "obj" /\ LineParams.name.t = "str"
HasArguments == LineParams.t = "obj" /\ LineParams.arguments # Absent
ArgumentIs(key, type) ==
    /\ LineParams.arguments.t = "obj"
    /\ Member(LineParams.arguments, key).t = type

(***************************************************************************)
(* C18: a tools/call with params fails on the first check that fails, in    *)
(* this order: name is a string ("Missing tool name", also for params that  *)
(* are no object), params has an arguments member ("Missing tool            *)
(* arguments", whatever the name), the name is a tool's ("Unknown tool"),   *)
(* then the tool's own arguments: for add, a is a number, then b is; for    *)
(* hello, name is a string. It succeeds when none fails.                    *)
(***************************************************************************)
C18_ValidationOrder ==
    ToolCall =>
      /\ ~NameIsString => ToolErrorIs("Missing tool name", <<>>)
      /\ (NameIsString /\ ~HasArguments) => ToolErrorIs("Missing tool arguments", <<>>)
      /\ (NameIsString /\ HasArguments) =>
            LET name == LineParams.name.s IN
            /\ name \notin {"hello", "add"} => ToolErrorIs("Unknown tool: {}", <<name>>)
            /\ (name = "hello" /\ ~ArgumentIs("name", "str")) =>
                  ToolErrorIs("Missing name parameter", <<>>)
            /\ (name = "hello" /\ ArgumentIs("name", "str")) =>
                  response_str.v.error = Absent
            /\ (name = "add" /\ ~ArgumentIs("a", "num")) =>
                  ToolErrorIs("Parameter 'a' must be a number", <<>>)
            /\ (name = "add" /\ ArgumentIs("a", "num") /\ ~ArgumentIs("b", "num")) =>
                  ToolErrorIs("Parameter 'b' must be a number", <<>>)
            /\ (name = "add" /\ ArgumentIs("a", "num") /\ ArgumentIs("b", "num")) =>
                  response_str.v.error = Absent

C18_Witness ==
    /\ ToolCall
    /\ LineParams.t = "obj"
    /\ LineParams.name = JStr("bogus")
    /\ LineParams.arguments = Absent
    /\ ToolErrorIs("Missing tool arguments", <<>>)

\* The jsonrpc member of the line in hand.
LineJsonrpc == LineMember(line.v, "jsonrpc", 1)

\* The line l with j for its jsonrpc member.
WithJsonrpc(l, j) ==
    IF l.v.t = "obj" THEN [l EXCEPT !.v.jsonrpc = j]
    ELSE IF l.v.t = "arr" /\ Len(l.v.a) >= 1 THEN [l EXCEPT !.v.a[1] = j]
    ELSE l

(***************************************************************************)
(* C19: jsonrpc must be a string and its value is not looked at. A line of  *)
(* JSON whose jsonrpc is missing or no string is answered with the parse    *)
(* error -32700 and id null, and handle_request is not called for it; a     *)
(* line whose jsonrpc is any string is answered as the same line with       *)
(* jsonrpc "2.0" is, handle_request being called when that line decodes.    *)
(* Every response written or about to be written carries jsonrpc "2.0".     *)
(***************************************************************************)
C19_JsonrpcUnchecked ==
    /\ \A i \in DOMAIN Responses : Responses[i].body.jsonrpc = JStr("2.0")
    /\ Answering =>
          /\ response_str.v.jsonrpc = JStr("2.0")
          /\ (line.v.text = "json" /\ LineJsonrpc.t # "str") =>
                /\ HasError(response_str.v, ParseError)
                /\ response_str.v.id = JNull
                /\ CallsFor(Len(input), "handle_request") = {}
          /\ (line.v.text = "json" /\ LineJsonrpc.t = "str") =>
                LET same == WithJsonrpc(line.v, JStr("2.0")) IN
                /\ response_str.v = AnswerOf(same)
                /\ Decode(same).ok =>
                      Cardinality(CallsFor(Len(input), "handle_request")) = 1

C19_Witness ==
    /\ Answering
    /\ line.v.text = "json"
    /\ line.v.v.t = "obj"
    /\ LineJsonrpc = JStr("1.0")
    /\ LineMember(line.v, "method", 2) = JStr("initialize")
    /\ response_str.v.jsonrpc = JStr("2.0")
    /\ response_str.v.error = Absent
    /\ response_str.v.result = InitializePayload

====
